---- MODULE Spec2Model ----
(***************************************************************************)
(* The research pipeline of Personal-Research-Assistant: the shared        *)
(* ResearchState, its per-field merge, the five workflow nodes of          *)
(* app/agent/nodes.py with the chains and tools they call, and the         *)
(* continuation predicate should_continue_research.                        *)
(*                                                                         *)
(* The nodes are driven by the Orchestrator, the straight-line pipeline of  *)
(* the specification (the graph wiring itself is not among the source      *)
(* files): Plan, Search, Scrape, Summarize, Report, each update merged and *)
(* the continuation predicate evaluated before the next stage.  Once a run *)
(* has ended, or in place of a run, node methods may be invoked directly   *)
(* on the state as it is, as a retry or a unit test does; such calls are   *)
(* counted in direct.  In place of a run, the continuation predicate, the   *)
(* URL deduplication, the report chain's formatting or the planner's query *)
(* generation may also be applied to an input of its own.                  *)
(***************************************************************************)
EXTENDS Integers, Sequences, FiniteSets, TLC

VARIABLES
  searcher_enabled,  \* WebSearchTool._enabled, fixed when the nodes are built
  state,             \* the ResearchState
  pre,               \* the state the last node was invoked with
  update,            \* the update the last node returned
  remerged,          \* the state with that update merged into it once more
  calls,             \* the capability calls the last node made, in order
  locals,            \* local variables of the last node, where observed
  invoked,           \* the stages invoked so far, in order
  pc,                \* the Orchestrator's position in StageOrder, or Done
  direct,            \* the number of direct invocations of a node
  decision,          \* the last evaluation of the continuation predicate
  observed,          \* what the capabilities did so far: the providers that
                     \* raised, and whether a search call returned a result
  probe              \* the last application of a helper to an input of its own

vars ==
  <<searcher_enabled, state, pre, update, remerged, calls, locals, invoked,
    pc, direct, decision, observed, probe>>

(***************************************************************************)
(* Bounds of the model.                                                    *)
(***************************************************************************)
\* largest max_sources a run is created with
MaxSourcesBound == 2
\* most lines in one planner response
MaxLines == 2
\* most raw hits the search provider hands out during one Search invocation
MaxHits == 2
\* most direct invocations of a node on one state
MaxDirect == 1
\* longest list a helper is applied to on its own
MaxProbe == 3
\* largest query count generate_search_queries is asked for on its own
MaxQueries == 3

(***************************************************************************)
(* Python values.                                                          *)
(***************************************************************************)
None == "None"

\* None in a field that otherwise holds a dict
NoneDict == << >>

Min(a, b) == IF a <= b THEN a ELSE b

Max(a, b) == IF a >= b THEN a ELSE b

\* d.get(k, default) on a dict
Get(d, k, default) == IF k \in DOMAIN d THEN d[k] ELSE default

\* s[:n], negative n counted from the end as Python does
SliceTo(s, n) ==
  IF n >= 0 THEN SubSeq(s, 1, Min(n, Len(s)))
  ELSE SubSeq(s, 1, Max(Len(s) + n, 0))

\* truthiness of an Optional[str]
TruthyStr(v) == v # None /\ v # ""

BoundedSeq(S, n) == UNION {[1..k -> S] : k \in 0..n}

\* the outcome of a call: a returned value or a raised exception
Ok(v) == [raised |-> FALSE, value |-> v]

Raise(msg) == [raised |-> TRUE, value |-> msg]

(***************************************************************************)
(* ResearchState and its merge.                                            *)
(***************************************************************************)
Topic == "topic"

Depths == {"quick", "standard", "detailed", "unknown"}

\* the fields declared Annotated[List[Dict], add]
AppendFields == {"search_results", "scraped_content", "summaries"}

create_initial_state(topic, depth, max_sources) ==
  [topic |-> topic,
   depth |-> depth,
   max_sources |-> max_sources,
   research_plan |-> None,
   search_queries |-> <<>>,
   search_results |-> <<>>,
   scraped_content |-> <<>>,
   summaries |-> <<>>,
   final_report |-> None,
   report_metadata |-> NoneDict,
   current_step |-> "initialized",
   queries_executed |-> 0,
   pages_scraped |-> 0,
   should_continue |-> TRUE,
   error |-> None]

\* Merge as if no field had a reducer: every field of the update overwrites
Merge_Overwrite(current, upd) ==
  [k \in DOMAIN current |-> IF k \in DOMAIN upd THEN upd[k] ELSE current[k]]

\* Merge as if the update were the whole new state: a field the update lacks
\* falls back to its initial value
Merge_Replace(current, upd) ==
  [k \in DOMAIN current |->
     IF k \in DOMAIN upd
     THEN IF k \in AppendFields THEN current[k] \o upd[k] ELSE upd[k]
     ELSE create_initial_state(current.topic, current.depth,
                               current.max_sources)[k]]

\* Merge appending only the records the field does not hold yet
Merge_AppendOnce(current, upd) ==
  [k \in DOMAIN current |->
     IF k \in DOMAIN upd
     THEN IF k \in AppendFields
          THEN current[k] \o
               SelectSeq(upd[k],
                         LAMBDA r : \A i \in 1..Len(current[k]) : current[k][i] # r)
          ELSE upd[k]
     ELSE current[k]]

\* a node's partial update folded into the state: operator.add (list
\* concatenation) on the annotated fields, the new value on every other
\* field of the update, the old value on every field the update lacks
Merge(current, upd) ==
  [k \in DOMAIN current |->
     IF k \in DOMAIN upd
     THEN IF k \in AppendFields THEN current[k] \o upd[k] ELSE upd[k]
     ELSE current[k]]

(***************************************************************************)
(* The continuation predicate.                                             *)
(***************************************************************************)
\* the predicate with the two tests in the other order
should_continue_research_FlagFirst(s) ==
  IF Get(s, "should_continue", TRUE) THEN "continue"
  ELSE "end"

\* the predicate without the test of should_continue
should_continue_research_ErrorOnly(s) ==
  IF TruthyStr(Get(s, "error", None)) THEN "end"
  ELSE "continue"

should_continue_research(s) ==
  IF TruthyStr(Get(s, "error", None)) THEN "end"
  ELSE IF Get(s, "should_continue", TRUE) THEN "continue"
  ELSE "end"

(***************************************************************************)
(* Plan: PlanningChain.generate_search_queries and planning_node.          *)
(***************************************************************************)
\* lines of a planner response, with and without surrounding blanks
Lines == {" ", " q1 "}

\* str.strip()
Strip(l) == CASE l = " " -> "" [] l = " q1 " -> "q1" [] OTHER -> l

\* what quick_chain.ainvoke does: raises, or returns a text of 1..MaxLines
\* lines (the text already cut at its newlines)
PlannerOutcomes ==
  {Raise("provider")} \cup {Ok(r) : r \in BoundedSeq(Lines, MaxLines) \ {<<>>}}

FallbackQueries ==
  <<"topic", "topic latest developments", "topic recent advances",
    "topic research 2024", "topic overview">>

RECURSIVE StripNonEmpty(_)
\* [q.strip() for q in lines if q.strip()]
StripNonEmpty(lines) ==
  IF lines = <<>> THEN <<>>
  ELSE LET q == Strip(Head(lines))
       IN (IF q # "" THEN <<q>> ELSE <<>>) \o StripNonEmpty(Tail(lines))

\* generate_search_queries without its fallback: the provider's exception
\* reaches the caller
generate_search_queries_Reraise(topic, num_queries, outcome) ==
  IF outcome.raised
  THEN Raise("provider")
  ELSE LET queries == StripNonEmpty(outcome.value)
           padded == IF Len(queries) < num_queries
                     THEN queries \o <<"topic recent developments",
                                       "topic latest research">>
                     ELSE queries
       IN Ok(SliceTo(padded, num_queries))

\* generate_search_queries without the cut to num_queries
generate_search_queries_Uncut(topic, num_queries, outcome) ==
  IF outcome.raised
  THEN Ok(FallbackQueries)
  ELSE LET queries == StripNonEmpty(outcome.value)
           padded == IF Len(queries) < num_queries
                     THEN queries \o <<"topic recent developments",
                                       "topic latest research">>
                     ELSE queries
       IN Ok(padded)

generate_search_queries(topic, num_queries, outcome) ==
  IF outcome.raised
  THEN Ok(SliceTo(FallbackQueries, num_queries))
  ELSE LET queries == StripNonEmpty(outcome.value)
           padded == IF Len(queries) < num_queries
                     THEN queries \o <<"topic recent developments",
                                       "topic latest research">>
                     ELSE queries
       IN Ok(SliceTo(padded, num_queries))

\* the table with the default of another row
depth_to_queries_QuickDefault(depth) ==
  CASE depth = "quick" -> 2
    [] depth = "standard" -> 5
    [] depth = "detailed" -> 8
    [] OTHER -> 2

\* depth_to_queries.get(depth, 5)
depth_to_queries(depth) ==
  CASE depth = "quick" -> 2
    [] depth = "standard" -> 5
    [] depth = "detailed" -> 8
    [] OTHER -> 5

\* the capability call planning_node makes, and whether the provider call
\* inside it raised
planning_calls(s, outcome) ==
  <<[cap |-> "generate_search_queries", topic |-> s.topic,
     num_queries |-> depth_to_queries(s.depth),
     provider_raised |-> outcome.raised] >>

\* planning_node returning the queries without the step tag
planning_node_Untagged(s, outcome) ==
  LET num_queries == depth_to_queries(s.depth)
      result == generate_search_queries(s.topic, num_queries, outcome)
  IN IF result.raised
     THEN [error |-> "Planning failed", should_continue |-> FALSE]
     ELSE [search_queries |-> result.value]

planning_node(s, outcome) ==
  LET num_queries == depth_to_queries(s.depth)
      result == generate_search_queries(s.topic, num_queries, outcome)
  IN IF result.raised
     THEN [error |-> "Planning failed", should_continue |-> FALSE]
     ELSE [search_queries |-> result.value,
           current_step |-> "planning_complete"]

(***************************************************************************)
(* Search: WebSearchTool.search and search_node.                           *)
(***************************************************************************)
\* max_results of every search call search_node makes
SearchMaxResults == 2

\* results as the provider returns them; one has no url
RawHits ==
  {[url |-> "u1", title |-> "a"], [url |-> "u2", title |-> "a"],
   [title |-> "c"]}

\* the hits the provider hands out during one Search invocation, in order
HitStreams == BoundedSeq(RawHits, MaxHits)

\* what tavily.invoke does on call i of an invocation: it raises while the
\* provider is down, and otherwise returns the next max_results hits
ProviderSearch(stream, up, i, max_results) ==
  IF ~up THEN Raise("provider")
  ELSE Ok(SubSeq(stream, (i - 1) * max_results + 1,
                 Min(i * max_results, Len(stream))))

\* the dict search() builds from one provider result
ParseHit(result) ==
  [url |-> Get(result, "url", ""),
   title |-> Get(result, "title", "No title"),
   content |-> Get(result, "content", ""),
   score |-> Get(result, "score", 0)]

\* search letting the provider's exception through
search_Raises(enabled, outcome, query, max_results) ==
  IF ~enabled THEN Ok(<<>>)
  ELSE IF outcome.raised THEN Raise("provider")
  ELSE Ok([j \in 1..Len(outcome.value) |-> ParseHit(outcome.value[j])])

\* WebSearchTool.search: [] when the tool is disabled or the provider raises
search(enabled, outcome, query, max_results) ==
  IF ~enabled THEN Ok(<<>>)
  ELSE IF outcome.raised THEN Ok(<<>>)
  ELSE Ok([j \in 1..Len(outcome.value) |-> ParseHit(outcome.value[j])])

RECURSIVE Unique_NoSeen(_, _)
\* the loop without seen_urls.add(url)
Unique_NoSeen(results, seen_urls) ==
  IF results = <<>> THEN <<>>
  ELSE LET url == Get(Head(results), "url", "")
       IN IF url # "" /\ url \notin seen_urls
          THEN <<Head(results)>> \o Unique_NoSeen(Tail(results), seen_urls)
          ELSE Unique_NoSeen(Tail(results), seen_urls)

RECURSIVE Unique_RemoveWhileIterating(_, _)
\* the loop removing rejected entries from the list it iterates: the entry
\* after a removed one is passed over and stays
Unique_RemoveWhileIterating(results, seen_urls) ==
  IF results = <<>> THEN <<>>
  ELSE LET url == Get(Head(results), "url", "")
           rest == Tail(results)
       IN IF url # "" /\ url \notin seen_urls
          THEN <<Head(results)>>
               \o Unique_RemoveWhileIterating(rest, seen_urls \cup {url})
          ELSE IF rest = <<>> THEN <<>>
          ELSE <<Head(rest)>>
               \o Unique_RemoveWhileIterating(Tail(rest), seen_urls)

RECURSIVE Unique(_, _)
\* the URL deduplication loop over the rest of all_results, seen so far given
Unique(results, seen_urls) ==
  IF results = <<>> THEN <<>>
  ELSE LET url == Get(Head(results), "url", "")
       IN IF url # "" /\ url \notin seen_urls
          THEN <<Head(results)>> \o Unique(Tail(results), seen_urls \cup {url})
          ELSE Unique(Tail(results), seen_urls)

\* the outcomes of the search calls, one per query, in query order
SearchOutcomes(s, enabled, stream, up) ==
  [i \in 1..Len(s.search_queries) |->
     search(enabled, ProviderSearch(stream, up, i, SearchMaxResults),
            s.search_queries[i], SearchMaxResults)]

RECURSIVE Extend(_, _)
\* all_results after results.extend() of outcomes i .. last
Extend(outcomes, i) ==
  IF i > Len(outcomes) THEN <<>>
  ELSE outcomes[i].value \o Extend(outcomes, i + 1)

\* the capability calls search_node makes, and whether the provider call
\* inside each raised
search_calls(s, enabled, up) ==
  [i \in 1..Len(s.search_queries) |->
     [cap |-> "search", query |-> s.search_queries[i],
      max_results |-> SearchMaxResults,
      provider_raised |-> enabled /\ ~up]]

\* unique_results as the deduplication loop leaves it, before it is cut;
\* never assigned when a search call raises
search_locals(s, enabled, stream, up) ==
  LET outcomes == SearchOutcomes(s, enabled, stream, up)
  IN IF \E i \in DOMAIN outcomes : outcomes[i].raised
     THEN << >>
     ELSE [unique_results |-> Unique(Extend(outcomes, 1), {})]

\* search_node without the cut to max_sources
search_node_Untruncated(s, enabled, stream, up) ==
  LET outcomes == SearchOutcomes(s, enabled, stream, up)
  IN IF \E i \in DOMAIN outcomes : outcomes[i].raised
     THEN [error |-> "Search failed", should_continue |-> FALSE]
     ELSE LET all_results == Extend(outcomes, 1)
              unique_results == Unique(all_results, {})
          IN [search_results |-> unique_results,
              queries_executed |-> Len(s.search_queries),
              current_step |-> "search_complete"]

\* search_node counting the sources it found as the queries it executed
search_node_CountsResults(s, enabled, stream, up) ==
  LET outcomes == SearchOutcomes(s, enabled, stream, up)
  IN IF \E i \in DOMAIN outcomes : outcomes[i].raised
     THEN [error |-> "Search failed", should_continue |-> FALSE]
     ELSE LET all_results == Extend(outcomes, 1)
              unique_results == SliceTo(Unique(all_results, {}), s.max_sources)
          IN [search_results |-> unique_results,
              queries_executed |-> Len(unique_results),
              current_step |-> "search_complete"]

search_node(s, enabled, stream, up) ==
  LET outcomes == SearchOutcomes(s, enabled, stream, up)
  IN IF \E i \in DOMAIN outcomes : outcomes[i].raised
     THEN [error |-> "Search failed", should_continue |-> FALSE]
     ELSE LET all_results == Extend(outcomes, 1)
              unique_results == SliceTo(Unique(all_results, {}), s.max_sources)
          IN [search_results |-> unique_results,
              queries_executed |-> Len(s.search_queries),
              current_step |-> "search_complete"]

(***************************************************************************)
(* Scrape: WebScraperTool.scrape and scraping_node.                        *)
(***************************************************************************)
\* urlparse(url) has a scheme and a host
ValidUrl(url) == url \in {"u1", "u2"}

\* WebScraperTool.scrape: every failure is reported in the returned dict
scrape(url, fetched) ==
  IF ~ValidUrl(url) THEN Ok([success |-> FALSE, error |-> "Invalid URL format"])
  ELSE IF fetched
  THEN Ok([success |-> TRUE, url |-> url, title |-> "page",
           content |-> "text", word_count |-> 1, status_code |-> 200])
  ELSE Ok([success |-> FALSE, error |-> "Request failed"])

\* the indices of the results scraping_node scrapes
Scraped(s) ==
  {i \in 1..Len(s.search_results) : Get(s.search_results[i], "url", "") # ""}

RECURSIVE ScrapedPages(_, _, _)
\* scraped_pages after the loop has handled results i .. last
ScrapedPages(s, fetch, i) ==
  IF i > Len(s.search_results) THEN <<>>
  ELSE LET url == Get(s.search_results[i], "url", "")
           content == scrape(url, fetch[i]).value
       IN (IF url # "" /\ Get(content, "success", FALSE) = TRUE
           THEN <<content>> ELSE <<>>) \o ScrapedPages(s, fetch, i + 1)

RECURSIVE scraping_calls_from(_, _, _)
scraping_calls_from(s, fetch, i) ==
  IF i > Len(s.search_results) THEN <<>>
  ELSE (IF i \in Scraped(s)
        THEN <<[cap |-> "scrape", url |-> s.search_results[i].url,
                result |-> i,
                returned |-> scrape(s.search_results[i].url, fetch[i]).value]>>
        ELSE <<>>) \o scraping_calls_from(s, fetch, i + 1)

\* the capability calls scraping_node makes, each with the search result it
\* is for and what it returned
scraping_calls(s, fetch) == scraping_calls_from(s, fetch, 1)

\* scraping_node counting every page it tried
scraping_node_CountsAttempts(s, fetch) ==
  IF \E i \in Scraped(s) : scrape(s.search_results[i].url, fetch[i]).raised
  THEN [error |-> "Scraping failed", should_continue |-> FALSE]
  ELSE LET scraped_pages == ScrapedPages(s, fetch, 1)
       IN [scraped_content |-> scraped_pages,
           pages_scraped |-> Cardinality(Scraped(s)),
           current_step |-> "scraping_complete"]

\* scraping_node giving up on the first page it cannot scrape
scraping_node_HaltsOnFailure(s, fetch) ==
  IF \E i \in Scraped(s) :
       Get(scrape(s.search_results[i].url, fetch[i]).value, "success", FALSE) # TRUE
  THEN [error |-> "Scraping failed", should_continue |-> FALSE]
  ELSE LET scraped_pages == ScrapedPages(s, fetch, 1)
       IN [scraped_content |-> scraped_pages,
           pages_scraped |-> Len(scraped_pages),
           current_step |-> "scraping_complete"]

scraping_node(s, fetch) ==
  IF \E i \in Scraped(s) : scrape(s.search_results[i].url, fetch[i]).raised
  THEN [error |-> "Scraping failed", should_continue |-> FALSE]
  ELSE LET scraped_pages == ScrapedPages(s, fetch, 1)
       IN [scraped_content |-> scraped_pages,
           pages_scraped |-> Len(scraped_pages),
           current_step |-> "scraping_complete"]

(***************************************************************************)
(* Summarize: SummaryChain and summarization_node.                         *)
(***************************************************************************)
\* self.summarizer.summarize_multiple(...): SummaryChain defines summarize
\* only, so the attribute lookup raises AttributeError
summarize_multiple(topic, sources) == Raise("AttributeError")

\* the capability call summarization_node attempts, and whether it raised
summarization_calls(s) ==
  <<[cap |-> "summarize_multiple", topic |-> s.topic,
     sources |-> s.scraped_content,
     raised |-> summarize_multiple(s.topic, s.scraped_content).raised] >>

\* the failure update without should_continue
summarization_node_KeepsGoing(s) ==
  LET result == summarize_multiple(s.topic, s.scraped_content)
  IN IF result.raised
     THEN [error |-> "Summarization failed"]
     ELSE [summaries |-> result.value,
           current_step |-> "summarization_complete"]

\* a failure branch that also sets the step tag, as Report's does
summarization_node_TagsFailure(s) ==
  LET result == summarize_multiple(s.topic, s.scraped_content)
  IN IF result.raised
     THEN [error |-> "Summarization failed", should_continue |-> FALSE,
           current_step |-> "failed"]
     ELSE [summaries |-> result.value,
           current_step |-> "summarization_complete"]

summarization_node(s) ==
  LET result == summarize_multiple(s.topic, s.scraped_content)
  IN IF result.raised
     THEN [error |-> "Summarization failed", should_continue |-> FALSE]
     ELSE [summaries |-> result.value,
           current_step |-> "summarization_complete"]

(***************************************************************************)
(* Report: ReportChain and report_generation_node.                         *)
(***************************************************************************)
\* texts the report provider may return
ReportTexts == {"a report"}

\* len(report.split())
WordCount(text) == CASE text = "" -> 0 [] text = "a report" -> 2 [] OTHER -> 1

\* what chain.ainvoke does: raises, or returns the report text
ReportOutcomes == {Raise("provider")} \cup {Ok(t) : t \in ReportTexts}

RECURSIVE format_summaries_from(_, _)
\* the blocks "Source i / Title / URL / Summary" of the prompt context
format_summaries_from(summaries, i) ==
  IF i > Len(summaries) THEN <<>>
  ELSE (IF Get(summaries[i], "success", FALSE) = TRUE
        THEN <<[source |-> i,
                title |-> Get(summaries[i], "title", "Untitled"),
                url |-> Get(summaries[i], "url", "N/A"),
                summary |-> Get(summaries[i], "summary", "No summary available")]>>
        ELSE <<>>) \o format_summaries_from(summaries, i + 1)

format_summaries(summaries) == format_summaries_from(summaries, 1)

RECURSIVE extract_source_list_All(_)
\* the source list without the test of summary.get('success')
extract_source_list_All(summaries) ==
  IF summaries = <<>> THEN <<>>
  ELSE <<[title |-> Get(Head(summaries), "title", "Untitled"),
          url |-> Get(Head(summaries), "url", "")]>>
       \o extract_source_list_All(Tail(summaries))

RECURSIVE extract_source_list(_)
extract_source_list(summaries) ==
  IF summaries = <<>> THEN <<>>
  ELSE (IF Get(Head(summaries), "success", FALSE) = TRUE
        THEN <<[title |-> Get(Head(summaries), "title", "Untitled"),
                url |-> Get(Head(summaries), "url", "")]>>
        ELSE <<>>) \o extract_source_list(Tail(summaries))

\* ReportChain.generate_report: a provider failure is reported in the dict
generate_report(topic, summaries, outcome) ==
  IF outcome.raised
  THEN Ok([success |-> FALSE, error |-> "provider"])
  ELSE Ok([success |-> TRUE,
           topic |-> topic,
           report |-> outcome.value,
           num_sources |-> Len(summaries),
           word_count |-> WordCount(outcome.value),
           generated_at |-> "now",
           sources |-> extract_source_list(summaries)])

\* the capability call report_generation_node makes, with the prompt input
\* and what it returned
report_calls(s, outcome) ==
  <<[cap |-> "generate_report", topic |-> s.topic,
     num_sources |-> Len(s.summaries),
     summaries |-> format_summaries(s.summaries),
     provider_raised |-> outcome.raised,
     returned |-> generate_report(s.topic, s.summaries, outcome).value] >>

\* the success update without should_continue
report_generation_node_SuccessContinues(s, outcome) ==
  LET result == generate_report(s.topic, s.summaries, outcome)
      report_result == result.value
  IN IF ~result.raised /\ Get(report_result, "success", FALSE) = TRUE
     THEN [final_report |-> Get(report_result, "report", None),
           report_metadata |->
             [word_count |-> Get(report_result, "word_count", None),
              num_sources |-> Get(report_result, "num_sources", None),
              generated_at |-> Get(report_result, "generated_at", None),
              sources |-> Get(report_result, "sources", <<>>)],
           current_step |-> "completed"]
     ELSE [error |-> "Report generation failed",
           should_continue |-> FALSE,
           current_step |-> "failed"]

\* the node without the test of report_result.get('success')
report_generation_node_IgnoresSuccess(s, outcome) ==
  LET result == generate_report(s.topic, s.summaries, outcome)
      report_result == result.value
  IN IF ~result.raised
     THEN [final_report |-> Get(report_result, "report", None),
           report_metadata |->
             [word_count |-> Get(report_result, "word_count", None),
              num_sources |-> Get(report_result, "num_sources", None),
              generated_at |-> Get(report_result, "generated_at", None),
              sources |-> Get(report_result, "sources", <<>>)],
           current_step |-> "completed",
           should_continue |-> FALSE]
     ELSE [error |-> "Report generation failed",
           should_continue |-> FALSE,
           current_step |-> "failed"]

\* the failure update without the error message
report_generation_node_NoError(s, outcome) ==
  LET result == generate_report(s.topic, s.summaries, outcome)
      report_result == result.value
  IN IF ~result.raised /\ Get(report_result, "success", FALSE) = TRUE
     THEN [final_report |-> Get(report_result, "report", None),
           report_metadata |->
             [word_count |-> Get(report_result, "word_count", None),
              num_sources |-> Get(report_result, "num_sources", None),
              generated_at |-> Get(report_result, "generated_at", None),
              sources |-> Get(report_result, "sources", <<>>)],
           current_step |-> "completed",
           should_continue |-> FALSE]
     ELSE [should_continue |-> FALSE,
           current_step |-> "failed"]

report_generation_node(s, outcome) ==
  LET result == generate_report(s.topic, s.summaries, outcome)
      report_result == result.value
  IN IF ~result.raised /\ Get(report_result, "success", FALSE) = TRUE
     THEN [final_report |-> Get(report_result, "report", None),
           report_metadata |->
             [word_count |-> Get(report_result, "word_count", None),
              num_sources |-> Get(report_result, "num_sources", None),
              generated_at |-> Get(report_result, "generated_at", None),
              sources |-> Get(report_result, "sources", <<>>)],
           current_step |-> "completed",
           should_continue |-> FALSE]
     ELSE [error |-> "Report generation failed",
           should_continue |-> FALSE,
           current_step |-> "failed"]

(***************************************************************************)
(* The Orchestrator, the direct invocations and the helper applications.   *)
(***************************************************************************)
StageOrder == <<"plan", "search", "scrape", "summarize", "report">>

Done == Len(StageOrder) + 1

\* the run is the Orchestrator's: no node has been invoked directly
Orchestrated == direct = 0

\* the dicts the continuation predicate is evaluated on, on its own:
\* error and should_continue each absent or holding one of their values
DecideInputs ==
  {e @@ c : e \in {<< >>} \cup {"error" :> v : v \in {None, "", "x"}},
            c \in {<< >>} \cup {"should_continue" :> b : b \in BOOLEAN}}

\* the result dicts the URL deduplication is applied to, on its own: also
\* a second result for a URL, and an empty URL
ProbeHits ==
  RawHits \cup {[url |-> "u1", title |-> "b"], [url |-> "", title |-> "d"]}

\* the summary dicts the report chain's helpers are applied to, on their
\* own: successful with and without title and summary, failed, and without
\* a success key
SummaryOutcomes ==
  {[success |-> TRUE, title |-> "t1", url |-> "u1", summary |-> "s1"],
   [success |-> TRUE, url |-> "u2"],
   [success |-> FALSE, url |-> "u1", error |-> "e"],
   [title |-> "t2", url |-> "u2"]}

\* an evaluation of the continuation predicate: what it read, what it said
Evaluate(s) ==
  [input |-> [k \in DOMAIN s \cap {"error", "should_continue"} |-> s[k]],
   result |-> should_continue_research(s)]

NoDecision == [input |-> << >>, result |-> "none"]

NoProbe == [fn |-> "none", input |-> << >>, result |-> << >>, again |-> << >>]

\* the Orchestrator invokes the node at position pc
MayOrchestrate(stage) ==
  /\ Orchestrated
  /\ pc \in 1..Len(StageOrder)
  /\ StageOrder[pc] = stage

\* any node may be invoked directly in place of a run or after it
MayInvokeDirectly ==
  /\ direct < MaxDirect
  /\ \/ pc = 1 /\ invoked = << >>
     \/ pc = Done /\ invoked # << >>

\* one node invocation: its update merged into the state; in a run the
\* continuation predicate is then evaluated on the merged state
Step(stage, upd, made, seen, vals) ==
  /\ \/ MayOrchestrate(stage) /\ UNCHANGED direct
     \/ MayInvokeDirectly /\ direct' = direct + 1
  /\ invoked' = Append(invoked, stage)
  /\ pre' = state
  /\ observed' = observed \cup seen
  /\ calls' = made
  /\ update' = upd
  /\ state' = Merge(state, update')
  /\ remerged' = Merge(state', update')
  /\ locals' = vals
  /\ IF direct' = direct
     THEN /\ decision' = Evaluate(state')
          /\ pc' = IF decision'.result = "end"
                   THEN Done
                   ELSE pc + 1
     ELSE /\ pc' = Done
          /\ UNCHANGED decision
  /\ UNCHANGED <<searcher_enabled, probe>>

Init ==
  /\ searcher_enabled \in BOOLEAN
  /\ \E depth \in Depths, max_sources \in 1..MaxSourcesBound :
       state = create_initial_state(Topic, depth, max_sources)
  /\ pre = state
  /\ update = << >>
  /\ remerged = state
  /\ calls = << >>
  /\ locals = << >>
  /\ invoked = << >>
  /\ pc = 1
  /\ direct = 0
  /\ decision = NoDecision
  /\ observed = {}
  /\ probe = NoProbe

\* some driver may invoke the node now
MayInvoke(stage) == MayOrchestrate(stage) \/ MayInvokeDirectly

Plan ==
  /\ MayInvoke("plan")
  /\ \E outcome \in PlannerOutcomes :
       Step("plan", planning_node(state, outcome),
            planning_calls(state, outcome),
            IF outcome.raised THEN {"planner raised"} ELSE {},
            << >>)

\* the provider is up or down for the whole invocation, and hands out hits
\* only to the calls that reach it
Search ==
  /\ MayInvoke("search")
  /\ \E up \in BOOLEAN :
       \E stream \in IF searcher_enabled /\ up THEN HitStreams ELSE {<< >>} :
         /\ Len(stream) <= SearchMaxResults * Len(state.search_queries)
         /\ Step("search", search_node(state, searcher_enabled, stream, up),
                 search_calls(state, searcher_enabled, up),
                 (IF searcher_enabled /\ ~up /\ state.search_queries # << >>
                  THEN {"search raised"} ELSE {})
                 \cup (IF stream # << >> THEN {"search hit"} ELSE {}),
                 search_locals(state, searcher_enabled, stream, up))

\* fetch[i]: whether the page of search result i can be fetched
Scrape ==
  /\ MayInvoke("scrape")
  /\ \E fetch \in [1..Len(state.search_results) -> BOOLEAN] :
       Step("scrape", scraping_node(state, fetch),
            scraping_calls(state, fetch),
            IF \E i \in Scraped(state) : ~fetch[i]
            THEN {"scrape failed"} ELSE {},
            << >>)

Summarize ==
  /\ MayInvoke("summarize")
  /\ Step("summarize", summarization_node(state), summarization_calls(state),
          {}, << >>)

Report ==
  /\ MayInvoke("report")
  /\ \E outcome \in ReportOutcomes :
       Step("report", report_generation_node(state, outcome),
            report_calls(state, outcome),
            IF outcome.raised THEN {"report raised"} ELSE {},
            << >>)

\* the continuation predicate evaluated on a dict of its own
Decide ==
  /\ pc = 1
  /\ invoked = << >>
  /\ \E d \in DecideInputs : decision' = Evaluate(d)
  /\ pc' = Done
  /\ UNCHANGED <<searcher_enabled, state, pre, update, remerged, calls, locals,
                 invoked,
                 direct, observed, probe>>

\* the URL deduplication of search_node applied to a list of its own, and
\* then to its own output
Deduplicate ==
  /\ pc = 1
  /\ invoked = << >>
  /\ \E all_results \in BoundedSeq(ProbeHits, MaxProbe) :
       probe' = [fn |-> "Unique", input |-> all_results,
                 result |-> Unique(all_results, {}),
                 again |-> Unique(Unique(all_results, {}), {})]
  /\ pc' = Done
  /\ UNCHANGED <<searcher_enabled, state, pre, update, remerged, calls, locals,
                 invoked,
                 direct, observed, decision>>

\* generate_report applied to a list of summaries of its own: the context
\* it formats for the prompt, the source list it returns, and the metadata
\* report_generation_node records from it on a state holding these summaries
FormatSummaries ==
  /\ pc = 1
  /\ invoked = << >>
  /\ \E summaries \in BoundedSeq(SummaryOutcomes, MaxProbe) :
       probe' = [fn |-> "generate_report", summaries |-> summaries,
                 context |-> format_summaries(summaries),
                 sources |->
                   generate_report(Topic, summaries,
                                   Ok("a report")).value.sources,
                 report_metadata |->
                   report_generation_node(
                     [state EXCEPT !.summaries = summaries],
                     Ok("a report")).report_metadata]
  /\ pc' = Done
  /\ UNCHANGED <<searcher_enabled, state, pre, update, remerged, calls, locals,
                 invoked,
                 direct, observed, decision>>

\* generate_search_queries applied to a count and a planner response of
\* its own
GenerateQueries ==
  /\ pc = 1
  /\ invoked = << >>
  /\ \E num_queries \in 0..MaxQueries, outcome \in PlannerOutcomes :
       probe' = [fn |-> "generate_search_queries",
                 num_queries |-> num_queries, outcome |-> outcome,
                 queries |->
                   generate_search_queries(Topic, num_queries, outcome).value]
  /\ pc' = Done
  /\ UNCHANGED <<searcher_enabled, state, pre, update, remerged, calls, locals,
                 invoked,
                 direct, observed, decision>>

Next ==
  \/ Plan
  \/ Search
  \/ Scrape
  \/ Summarize
  \/ Report
  \/ Decide
  \/ Deduplicate
  \/ FormatSummaries
  \/ GenerateQueries

Spec == Init /\ [][Next]_vars

\* a stage invoked by the Orchestrator, not directly
Driven ==
  /\ pc # Done
  /\ direct' = 0
  /\ Plan \/ Search \/ Scrape \/ Summarize \/ Report

\* every capability call returns or raises, and the Orchestrator then takes
\* its next step; nobody is bound to invoke a node directly
FairSpec == Spec /\ WF_vars(Driven)

(***************************************************************************)
(* The claims.                                                             *)
(***************************************************************************)
\* the stage invoked last, "none" before the first
LastInvoked == IF invoked = << >> THEN "none" ELSE invoked[Len(invoked)]

\* a run of the Orchestrator that has ended
RunEnded == Orchestrated /\ pc = Done /\ invoked # << >>

\* the step tag each stage sets when it succeeds
StepTag ==
  [plan |-> "planning_complete", search |-> "search_complete",
   scrape |-> "scraping_complete", summarize |-> "summarization_complete",
   report |-> "completed"]

Url(r) == Get(r, "url", "")

IsPrefix(p, q) == Len(p) <= Len(q) /\ SubSeq(q, 1, Len(p)) = p

\* C1: a non-empty error implies should_continue is false, and every stage
\* the Orchestrator invoked was invoked on a state with no error and with
\* should_continue true: once error is set no further stage runs.
C1_ErrorHalts ==
  /\ TruthyStr(state.error) => state.should_continue = FALSE
  /\ Orchestrated /\ invoked # << >> =>
       ~TruthyStr(pre.error) /\ pre.should_continue = TRUE

\* a run halted by a stage that set error
C1_Witness ==
  RunEnded /\ TruthyStr(state.error) /\ "error" \in DOMAIN update
  /\ Len(invoked) < Len(StageOrder)

\* C2: a run that has ended has current_step 'completed' or 'failed'.
C2_TerminalStep ==
  RunEnded => state.current_step \in {"completed", "failed"}

\* C3: current_step = 'failed' implies a non-empty error.
C3_FailedHasError ==
  state.current_step = "failed" => TruthyStr(state.error)

\* the Report stage has failed
C3_Witness ==
  LastInvoked = "report" /\ state.current_step = "failed"
  /\ pre.current_step # "failed"

\* C4: the continuation predicate says 'end' when error is set whatever
\* should_continue is, and otherwise 'continue' when should_continue is true
\* or absent and 'end' when it is false.
C4_Decide ==
  decision.result # "none" =>
    LET d == decision.input
        error_set == "error" \in DOMAIN d /\ d.error # None /\ d.error # ""
        flag == IF "should_continue" \in DOMAIN d THEN d.should_continue ELSE TRUE
    IN /\ error_set => decision.result = "end"
       /\ ~error_set /\ flag => decision.result = "continue"
       /\ ~error_set /\ ~flag => decision.result = "end"

\* error set and should_continue true: 'end'
C4_Witness ==
  /\ decision.input = [error |-> "x", should_continue |-> TRUE]
  /\ decision.result = "end"

\* the Plan stage ran last and the planner's provider call raised
PlannerFailed == LastInvoked = "plan" /\ calls[1].provider_raised

C6_StageOrder ==
  Orchestrated /\ invoked # << >> =>
    /\ invoked = SubSeq(StageOrder, 1, Len(invoked))
    /\ pre.current_step =
         IF Len(invoked) = 1 THEN "initialized"
         ELSE StepTag[invoked[Len(invoked) - 1]]
    /\ pc # Done =>
         /\ pc = Len(invoked) + 1
         /\ state.current_step = StepTag[LastInvoked]

\* a run that went through four stages in order
C6_Witness ==
  Orchestrated /\ invoked = <<"plan", "search", "scrape", "summarize">>
  /\ pre.current_step = "scraping_complete"

\* the fields merge overwrites, as the claim lists them
OverwriteFields ==
  {"search_queries", "current_step", "queries_executed", "pages_scraped",
   "should_continue", "error", "final_report", "report_metadata"}

\* C7: after a merge every field absent from the update has the value it had
\* before, and every non-accumulating field of the update has the update's
\* value.
C7_MergeFrame ==
  invoked # << >> =>
    /\ DOMAIN state = DOMAIN pre
    /\ \A k \in DOMAIN pre :
         /\ k \notin DOMAIN update => state[k] = pre[k]
         /\ k \in DOMAIN update \cap OverwriteFields => state[k] = update[k]

\* a Report update merged into a state with results of earlier stages
C7_Witness ==
  /\ LastInvoked = "report"
  /\ "final_report" \in DOMAIN update
  /\ pre.search_results # << >>
  /\ pre.search_queries # << >>
  /\ pre.final_report = None

\* C8: after a merge each of search_results, scraped_content and summaries
\* is its earlier value followed by the update's records, so the earlier
\* value is a prefix of the later one.
C8_AppendOnly ==
  invoked # << >> =>
    \A k \in AppendFields :
      /\ state[k] = pre[k] \o Get(update, k, << >>)
      /\ IsPrefix(pre[k], state[k])

\* Search re-invoked on a state that holds results: a batch appended
C8_Witness ==
  /\ LastInvoked = "search"
  /\ direct > 0
  /\ pre.search_results # << >>
  /\ Get(update, "search_results", << >>) # << >>
  /\ Len(state.search_results) > Len(pre.search_results)

\* C9: the query count Plan asks the planner for is 2 for 'quick', 5 for
\* 'standard', 8 for 'detailed' and 5 for any other depth, and Plan sets no
\* more queries than that.
C9_QueryCount ==
  LastInvoked = "plan" =>
    LET expected == CASE pre.depth = "quick" -> 2
                      [] pre.depth = "standard" -> 5
                      [] pre.depth = "detailed" -> 8
                      [] OTHER -> 5
    IN /\ calls[1].num_queries = expected
       /\ Len(Get(update, "search_queries", << >>)) <= expected

\* Plan on a depth outside the table
C9_Witness ==
  LastInvoked = "plan" /\ pre.depth = "unknown" /\ calls[1].num_queries = 5

\* the indices of a list whose entry is the first with its non-empty URL
FirstOfUrl(a) ==
  {i \in 1..Len(a) :
     Url(a[i]) # "" /\ \A j \in 1..(i - 1) : Url(a[j]) # Url(a[i])}

\* C10: the deduplicated list is the entries that are the first with their
\* non-empty URL, in their order in the list: one per distinct non-empty
\* URL, none with an empty or missing URL; and the results a Search
\* invocation returns have distinct non-empty URLs.
C10_Dedup ==
  /\ probe.fn = "Unique" =>
       LET a == probe.input
           u == probe.result
       IN /\ Len(u) = Cardinality(FirstOfUrl(a))
          /\ \A p \in 1..Len(u) :
               \E i \in FirstOfUrl(a) :
                 /\ u[p] = a[i]
                 /\ Cardinality({j \in FirstOfUrl(a) : j < i}) = p - 1
  /\ LastInvoked = "search" /\ "search_results" \in DOMAIN update =>
       \A p, q \in 1..Len(update.search_results) :
         /\ Url(update.search_results[p]) # ""
         /\ p # q => Url(update.search_results[p]) # Url(update.search_results[q])

\* three results, two sharing a URL and the shared one not last: two kept
C10_Witness ==
  /\ probe.fn = "Unique"
  /\ Len(probe.input) = 3
  /\ Len(probe.result) = 2
  /\ Url(probe.input[1]) = Url(probe.input[3])
  /\ Url(probe.input[2]) \notin {"", Url(probe.input[1])}
  /\ probe.input[1] # probe.input[3]

\* C11: the URL deduplication applied to its own output returns that output
\* unchanged, for every input list.
C11_DedupIdempotent ==
  probe.fn = "Unique" => probe.again = probe.result

\* a list the deduplication shortens, by a duplicate and by an empty URL
C11_Witness ==
  /\ probe.fn = "Unique"
  /\ Len(probe.input) = 3
  /\ Len(probe.result) = 1
  /\ \E i \in 1..3 : Url(probe.input[i]) = ""
  /\ \E i, j \in 1..3 : i # j /\ Url(probe.input[i]) = Url(probe.input[j])
                         /\ Url(probe.input[i]) # ""
  /\ probe.again = probe.result

\* C12: the search_results batch of one Search invocation has at most
\* max_sources entries and is the leading entries of the deduplicated list,
\* as many of them as max_sources allows.
C12_SearchTruncates ==
  LastInvoked = "search" /\ "search_results" \in DOMAIN update =>
    LET unique_results == locals.unique_results
        batch == update.search_results
    IN /\ Len(batch) <= pre.max_sources
       /\ Len(batch) = Min(pre.max_sources, Len(unique_results))
       /\ \A p \in 1..Len(batch) : batch[p] = unique_results[p]
       /\ \A p, q \in 1..Len(unique_results) :
            /\ Url(unique_results[p]) # ""
            /\ p # q => Url(unique_results[p]) # Url(unique_results[q])

\* more unique URLs found than max_sources: the batch is cut
C12_Witness ==
  /\ LastInvoked = "search"
  /\ "search_results" \in DOMAIN update
  /\ Len(locals.unique_results) > pre.max_sources
  /\ Len(update.search_results) = pre.max_sources

\* the scrape calls of a sequence of calls that reported success
Succeeded(cs) ==
  {i \in 1..Len(cs) : Get(cs[i].returned, "success", FALSE) = TRUE}

\* C13: in every successful Scrape invocation pages_scraped is the number
\* of entries of the scraped_content batch, and every entry of the batch is
\* a scrape outcome with success = true.
C13_PagesScrapedCount ==
  LastInvoked = "scrape" /\ "scraped_content" \in DOMAIN update =>
    /\ update.pages_scraped = Len(update.scraped_content)
    /\ state.pages_scraped = Len(update.scraped_content)
    /\ \A p \in 1..Len(update.scraped_content) :
         /\ Get(update.scraped_content[p], "success", FALSE) = TRUE
         /\ \E i \in 1..Len(calls) : calls[i].returned = update.scraped_content[p]

\* two pages tried, one scraped
C13_Witness ==
  /\ LastInvoked = "scrape"
  /\ Len(calls) = 2
  /\ Cardinality(Succeeded(calls)) = 1
  /\ update.pages_scraped = 1

\* C14: whatever number of scrapes fail, the Scrape stage makes one scrape
\* call per search result, in order, returns the successful outcomes in
\* that order with current_step = 'scraping_complete', sets neither error
\* nor should_continue, and the run goes on to Summarize.
C14_ScrapeTolerates ==
  LastInvoked = "scrape" =>
    /\ Len(calls) = Len(pre.search_results)
    /\ \A i \in 1..Len(calls) :
         calls[i].result = i /\ calls[i].url = Url(pre.search_results[i])
    /\ DOMAIN update = {"scraped_content", "pages_scraped", "current_step"}
    /\ update.current_step = "scraping_complete"
    /\ state.error = pre.error /\ state.should_continue = pre.should_continue
    /\ Len(update.scraped_content) = Cardinality(Succeeded(calls))
    /\ \A p \in 1..Len(update.scraped_content) :
         \E i \in Succeeded(calls) :
           /\ update.scraped_content[p] = calls[i].returned
           /\ Cardinality({j \in Succeeded(calls) : j < i}) = p - 1
    /\ Orchestrated =>
         /\ state.error = None /\ state.should_continue
         /\ decision.result = "continue"
         /\ StageOrder[pc] = "summarize"

\* a run in which every scrape failed and Summarize is next
C14_Witness ==
  /\ LastInvoked = "scrape"
  /\ Orchestrated
  /\ Len(calls) = 2
  /\ Succeeded(calls) = {}
  /\ update.scraped_content = << >>
  /\ StageOrder[pc] = "summarize"

\* C15: every update the Report stage returns sets should_continue to
\* false, and the continuation predicate says 'end' on the state it is
\* merged into.
C15_ReportStops ==
  LastInvoked = "report" =>
    /\ "should_continue" \in DOMAIN update
    /\ update.should_continue = FALSE
    /\ state.should_continue = FALSE
    /\ should_continue_research(state) = "end"
    /\ Orchestrated => decision.result = "end" /\ pc = Done

\* a report generated on a state that had should_continue true and no error
C15_Witness ==
  /\ LastInvoked = "report"
  /\ pre.should_continue /\ pre.error = None
  /\ update.current_step = "completed"
  /\ state.error = None

\* the report capability reported success to the last Report invocation
ReportSucceeded == Get(calls[1].returned, "success", FALSE) = TRUE

\* C16: the Report stage sets current_step = 'completed' with final_report
\* and report_metadata exactly when the report capability reports success;
\* otherwise its update is a non-empty error, should_continue = false and
\* current_step = 'failed', without final_report or report_metadata.
C16_ReportOutcome ==
  LastInvoked = "report" =>
    /\ update.current_step = "completed" <=> ReportSucceeded
    /\ ReportSucceeded =>
         /\ DOMAIN update = {"final_report", "report_metadata",
                             "current_step", "should_continue"}
         /\ update.final_report = calls[1].returned.report
         /\ update.report_metadata =
              [word_count |-> calls[1].returned.word_count,
               num_sources |-> calls[1].returned.num_sources,
               generated_at |-> calls[1].returned.generated_at,
               sources |-> calls[1].returned.sources]
    /\ ~ReportSucceeded =>
         /\ DOMAIN update = {"error", "should_continue", "current_step"}
         /\ TruthyStr(update.error)
         /\ update.current_step = "failed"
         /\ state.final_report = pre.final_report
         /\ state.report_metadata = pre.report_metadata

\* the provider raised, the capability reported failure, the stage failed
C16_Witness ==
  /\ LastInvoked = "report"
  /\ calls[1].provider_raised
  /\ ~ReportSucceeded
  /\ state.current_step = "failed"
  /\ state.final_report = None

\* a run on depth 'quick' that has ended, in which no provider raised and
\* the two search calls returned no result
QuietQuickRun ==
  /\ RunEnded
  /\ state.depth = "quick"
  /\ searcher_enabled
  /\ observed = {}
  /\ state.queries_executed = 2

\* C17: a run on depth 'quick' in which every search call returns zero
\* results and no capability fails goes through all five stages and ends
\* with current_step = 'completed', empty summaries and no error.
C17_EmptyRunCompletes ==
  QuietQuickRun =>
    /\ invoked = StageOrder
    /\ state.current_step = "completed"
    /\ state.summaries = << >>
    /\ state.error = None

Successful(a) == {i \in 1..Len(a) : Get(a[i], "success", FALSE) = TRUE}

\* C19: the formatted context and the source list of a report each hold
\* exactly one entry per summary with success = true, in the order of the
\* summaries, and none for a failed summary.
C19_OnlySuccessfulSummaries ==
  probe.fn = "generate_report" =>
    LET a == probe.summaries
        context == probe.context
        sources == probe.sources
    IN /\ Len(context) = Cardinality(Successful(a))
       /\ Len(sources) = Cardinality(Successful(a))
       /\ \A p \in 1..Cardinality(Successful(a)) :
            \E i \in Successful(a) :
              /\ Cardinality({j \in Successful(a) : j < i}) = p - 1
              /\ context[p] =
                   [source |-> i,
                    title |-> Get(a[i], "title", "Untitled"),
                    url |-> Get(a[i], "url", "N/A"),
                    summary |-> Get(a[i], "summary", "No summary available")]
              /\ sources[p] =
                   [title |-> Get(a[i], "title", "Untitled"),
                    url |-> Get(a[i], "url", "")]

\* a failed summary between two successful ones
C19_Witness ==
  /\ probe.fn = "generate_report"
  /\ Len(probe.summaries) = 3
  /\ Successful(probe.summaries) = {1, 3}
  /\ probe.summaries[1] # probe.summaries[3]
  /\ "success" \in DOMAIN probe.summaries[2]
  /\ Len(probe.sources) = 2
  /\ Len(probe.context) = 2

\* C20: one Search invocation issues one search call per entry of
\* search_queries, in list order, each requesting 2 results, and unless it
\* fails sets queries_executed to the number of calls; with zero queries it
\* issues no call, returns an empty batch and sets no error.
C20_OneCallPerQuery ==
  LastInvoked = "search" =>
    /\ Len(calls) = Len(pre.search_queries)
    /\ \A i \in 1..Len(calls) :
         /\ calls[i].cap = "search"
         /\ calls[i].query = pre.search_queries[i]
         /\ calls[i].max_results = 2
    /\ "error" \notin DOMAIN update =>
         /\ update.queries_executed = Len(calls)
         /\ state.queries_executed = Len(calls)
    /\ pre.search_queries = << >> =>
         /\ calls = << >>
         /\ "error" \notin DOMAIN update
         /\ update.search_results = << >>
         /\ update.queries_executed = 0

\* two different queries, one call each, fewer results than calls
C20_Witness ==
  /\ LastInvoked = "search"
  /\ Len(calls) = 2
  /\ calls[1].query # calls[2].query
  /\ Len(update.search_results) = 1
  /\ update.queries_executed = 2

\* Search on a state without queries
C20_NoQueries ==
  /\ LastInvoked = "search"
  /\ pre.search_queries = << >>
  /\ update.queries_executed = 0

\* C21: whatever the count asked for and whatever the planner does, a
\* provider failure included, generate_search_queries returns at most that
\* many queries, and so does the search_queries Plan sets.
C21_AtMostRequested ==
  /\ probe.fn = "generate_search_queries" =>
       Len(probe.queries) <= probe.num_queries
  /\ LastInvoked = "plan" /\ "search_queries" \in DOMAIN update =>
       /\ Len(update.search_queries) <= calls[1].num_queries
       /\ Len(state.search_queries) <= calls[1].num_queries

\* the planner answers with more lines than were asked for
C21_Witness ==
  /\ probe.fn = "generate_search_queries"
  /\ ~probe.outcome.raised
  /\ Len(StripNonEmpty(probe.outcome.value)) > probe.num_queries
  /\ probe.num_queries > 0
  /\ Len(probe.queries) = probe.num_queries

\* C22: the search capability never raises: when the tool is disabled or
\* its provider call raises, every search call returns an empty sequence, so
\* the Search stage's batch is empty and its update sets no error.
C22_SearchNeverRaises ==
  LastInvoked = "search" =>
    /\ "error" \notin DOMAIN update
    /\ state.error = pre.error
    /\ update.current_step = "search_complete"
    /\ (~searcher_enabled \/ \E i \in 1..Len(calls) : calls[i].provider_raised)
         => update.search_results = << >> /\ locals.unique_results = << >>

\* a run whose search provider raised on both queries and that goes on
C22_Witness ==
  /\ LastInvoked = "search"
  /\ Orchestrated
  /\ searcher_enabled
  /\ Len(calls) = 2
  /\ calls[1].provider_raised /\ calls[2].provider_raised
  /\ update.search_results = << >>
  /\ state.error = None
  /\ StageOrder[pc] = "scrape"

\* a run whose search tool is disabled and that goes on
C22_Disabled ==
  /\ LastInvoked = "search"
  /\ Orchestrated
  /\ ~searcher_enabled
  /\ calls # << >>
  /\ StageOrder[pc] = "scrape"

\* C23 as claimed: merging the update of one stage invocation a second time
\* yields the same state as merging it once.
C23_MergeIdempotent ==
  invoked # << >> => remerged = state

\* the accumulating fields of the last update that hold records
Appended ==
  {k \in AppendFields \cap DOMAIN update : update[k] # << >>}

\* C23 as amended: merging the update a second time leaves every other
\* field as the first merge left it and appends the update's records to
\* search_results, scraped_content and summaries once more; it yields the
\* same state exactly when the update holds no record for those fields.
C23_RemergeAppendsAgain ==
  invoked # << >> =>
    /\ DOMAIN remerged = DOMAIN state
    /\ \A k \in DOMAIN state :
         remerged[k] = IF k \in Appended THEN state[k] \o update[k]
                       ELSE state[k]
    /\ remerged = state <=> Appended = {}

\* a search batch merged twice: its records are in the field twice
C23_Witness ==
  /\ LastInvoked = "search"
  /\ Appended = {"search_results"}
  /\ remerged.search_results =
       pre.search_results \o update.search_results \o update.search_results
  /\ remerged # state

\* C24: every run terminates: a run never has more than five stage
\* invocations, a run that has ended ended on the continuation predicate
\* saying 'end', the predicate says 'end' on every state a Report update
\* was merged into, and every run that has started comes to its end.
C24_RunTerminates ==
  /\ [](Orchestrated =>
          /\ Len(invoked) <= 5
          /\ RunEnded => decision.result = "end")
  /\ [](LastInvoked = "report" => should_continue_research(state) = "end")
  /\ ((Orchestrated /\ invoked # << >>) ~> pc = Done)

\* a run that has ended on 'end' after its fourth stage
C24_Witness ==
  /\ RunEnded
  /\ Len(invoked) = 4
  /\ decision.result = "end"
  /\ pre.should_continue /\ pre.error = None

\* the fields a failed stage leaves as they were
FailureFrame ==
  {"search_queries", "search_results", "scraped_content", "summaries",
   "queries_executed", "pages_scraped"}

\* C25: when Plan, Search, Scrape or Summarize fails its update holds only
\* error and should_continue; after the merge current_step is what it was, in
\* a run the tag of the stage before (the last that succeeded), and
\* search_queries, search_results, scraped_content, summaries,
\* queries_executed and pages_scraped are what they were.
C25_FailureKeepsProgress ==
  LastInvoked \in {"plan", "search", "scrape", "summarize"}
  /\ "error" \in DOMAIN update =>
    /\ DOMAIN update = {"error", "should_continue"}
    /\ state.current_step = pre.current_step
    /\ \A k \in FailureFrame : state[k] = pre[k]
    /\ Orchestrated =>
         state.current_step =
           IF Len(invoked) = 1
           THEN "initialized"
           ELSE StepTag[invoked[Len(invoked) - 1]]

\* a run whose Summarize stage failed after pages were scraped
C25_Witness ==
  /\ RunEnded
  /\ LastInvoked = "summarize"
  /\ "error" \in DOMAIN update
  /\ state.current_step = "scraping_complete"
  /\ state.scraped_content # << >>
  /\ state.pages_scraped > 0
  /\ state.queries_executed > 0

C26_ReportOnNoSummaries ==
  /\ LastInvoked = "report"
  /\ "report_metadata" \in DOMAIN update
  /\ pre.summaries = << >>
  /\ state.report_metadata.num_sources = 0

====
